---- MODULE Spec2Model ----
(***************************************************************************)
(* DENUE Cuantificador (src/denue_cuantificar.py): the main program, the   *)
(* token pool (TokenManager), the fetcher (DENUEClient.fetch / quantify /  *)
(* get_activities) and the orchestrator (generate_csv) as a state machine. *)
(*                                                                         *)
(* Python strings are modelled as sequences of one-character strings, so   *)
(* that isdigit, len, strip, split, zfill, int() and str() are computed.   *)
(***************************************************************************)
EXTENDS Integers, Sequences, FiniteSets, TLC

\* ------------------------------------------------------------------------
\* Bounds of the model
\* ------------------------------------------------------------------------

\* largest worker concurrency drawn for -w
MaxWorkers == 2

\* largest number of tasks (activities x areas x strata) of a drawn run
MaxTasks == 4

\* longest list drawn as the argument of a function checked on its own
MaxListLen == 3

\* the longest list of -r in the runs of the progress loop
MaxRamos == 30

\* ------------------------------------------------------------------------
\* Program constants
\* ------------------------------------------------------------------------

MAX_RETRIES_PER_TOKEN == 3

ESTRATOS_FIJOS == <<1, 2, 3, 4, 5, 6, 7>>

\* width of an area code: a.zfill(5), len(a) <= 5, len(area) == 5
AREA_WIDTH == 5

\* width of an activity code: len(actividad) == 2, len(i) == 2
ACTIVIDAD_WIDTH == 2

\* progress is logged every PROGRESS_EVERY rows (processed % 100 == 0)
PROGRESS_EVERY == 100

\* ------------------------------------------------------------------------
\* Python strings and integers
\* ------------------------------------------------------------------------

DigitChars == <<"0", "1", "2", "3", "4", "5", "6", "7", "8", "9">>

Digits == {DigitChars[k] : k \in 1..10}

DigitVal(c) == (CHOOSE k \in 1..10 : DigitChars[k] = c) - 1

Whitespace == {" "}

\* str.isdigit(): non-empty and every character a digit
isdigit(s) == Len(s) > 0 /\ \A k \in 1..Len(s) : s[k] \in Digits

RECURSIVE lstrip(_)
lstrip(s) == IF s # <<>> /\ Head(s) \in Whitespace THEN lstrip(Tail(s)) ELSE s

RECURSIVE rstrip(_)
rstrip(s) ==
    IF s # <<>> /\ s[Len(s)] \in Whitespace
    THEN rstrip(SubSeq(s, 1, Len(s) - 1))
    ELSE s

\* str.strip()
strip(s) == rstrip(lstrip(s))

\* str.split(','): the pieces between commas, empty pieces kept
RECURSIVE split(_)
split(s) ==
    IF \A k \in 1..Len(s) : s[k] # ","
    THEN <<s>>
    ELSE LET k == CHOOSE j \in 1..Len(s) :
                     s[j] = "," /\ \A i \in 1..(j - 1) : s[i] # ","
         IN  <<SubSeq(s, 1, k - 1)>> \o split(SubSeq(s, k + 1, Len(s)))

\* str.zfill(w) of a digit string
RECURSIVE zfill(_, _)
zfill(s, w) == IF Len(s) >= w THEN s ELSE zfill(<<"0">> \o s, w)

RECURSIVE DigitsValue(_)
DigitsValue(s) ==
    IF s = <<>> THEN 0
    ELSE 10 * DigitsValue(SubSeq(s, 1, Len(s) - 1)) + DigitVal(s[Len(s)])

\* int(s) of a string: surrounding whitespace and one sign are accepted;
\* ok = FALSE stands for ValueError
int(s) ==
    LET t == strip(s)
        signed == t # <<>> /\ Head(t) \in {"+", "-"}
        body == IF signed THEN Tail(t) ELSE t
    IN  IF isdigit(body)
        THEN [ok |-> TRUE,
              v |-> IF signed /\ Head(t) = "-" THEN 0 - DigitsValue(body)
                    ELSE DigitsValue(body)]
        ELSE [ok |-> FALSE, v |-> 0]

\* str(n) of an integer
RECURSIVE NatStr(_)
NatStr(n) ==
    IF n < 10 THEN <<DigitChars[n + 1]>>
    ELSE NatStr(n \div 10) \o <<DigitChars[(n % 10) + 1]>>

str(n) == IF n < 0 THEN <<"-">> \o NatStr(0 - n) ELSE NatStr(n)

Range(s) == {s[k] : k \in 1..Len(s)}

\* list(dict.fromkeys(xs)): duplicates dropped, first-seen order kept
RECURSIVE fromkeys(_)
fromkeys(s) ==
    IF s = <<>> THEN <<>>
    ELSE LET front == fromkeys(SubSeq(s, 1, Len(s) - 1))
             last == s[Len(s)]
         IN  IF last \in Range(front) THEN front ELSE Append(front, last)

\* ------------------------------------------------------------------------
\* Validations and utilities
\* ------------------------------------------------------------------------

\* mutant of validate_actividad: the length is checked, the digits are not
validate_actividad_length_only(actividad) ==
    actividad = <<"0">> \/ Len(actividad) = ACTIVIDAD_WIDTH

validate_actividad(actividad) ==
    actividad = <<"0">> \/ (isdigit(actividad) /\ Len(actividad) = ACTIVIDAD_WIDTH)

validate_area(area) ==
    area = <<"0">> \/ (isdigit(area) /\ Len(area) = AREA_WIDTH)

\* validate_estrato on an int argument (the call of fetch)
validate_estrato_int(e, allow_zero) ==
    IF allow_zero /\ e = 0 THEN TRUE ELSE 1 <= e /\ e <= 7

\* validate_estrato on a str argument (the filter of the -e list)
validate_estrato(estrato, allow_zero) ==
    LET e == int(estrato)
    IN  IF ~e.ok THEN FALSE ELSE validate_estrato_int(e.v, allow_zero)

\* mutant of pad_area: the wildcard is zero-padded like any code
pad_area_wildcard_padded(a0) ==
    LET a == strip(a0)
    IN  IF isdigit(a) /\ Len(a) <= AREA_WIDTH THEN <<zfill(a, AREA_WIDTH)>>
        ELSE <<>>

pad_area(a0) ==
    LET a == strip(a0)
    IN  IF a = <<"0">> THEN <<a>>
        ELSE IF isdigit(a) /\ Len(a) <= AREA_WIDTH THEN <<zfill(a, AREA_WIDTH)>>
        ELSE <<>>

RECURSIVE pad_each(_)
pad_each(areas) ==
    IF areas = <<>> THEN <<>> ELSE pad_area(Head(areas)) \o pad_each(Tail(areas))

pad_areas(areas) == fromkeys(pad_each(areas))


\* ------------------------------------------------------------------------
\* JSON values and records of a response body
\* ------------------------------------------------------------------------

\* a JSON scalar: a string, an integer or null
SV(s) == [t |-> "str", s |-> s, n |-> 0]

IV(n) == [t |-> "int", s |-> <<>>, n |-> n]

NoneV == [t |-> "none", s |-> <<>>, n |-> 0]

\* a list-shaped record, a dictionary-shaped record (keys and their values in
\* parallel) and an element of any other shape
ListRec(items) == [shape |-> "list", items |-> items, keys |-> <<>>]

DictRec(keys, items) == [shape |-> "dict", items |-> items, keys |-> keys]

OtherRec == [shape |-> "other", items |-> <<>>, keys |-> <<>>]

\* str(v)
str_of(v) ==
    IF v.t = "str" THEN v.s
    ELSE IF v.t = "int" THEN str(v.n)
    ELSE <<"N", "o", "n", "e">>

\* int(v): ok = FALSE stands for ValueError / TypeError
int_of(v) ==
    IF v.t = "int" THEN [ok |-> TRUE, v |-> v.n]
    ELSE IF v.t = "str" THEN int(v.s)
    ELSE [ok |-> FALSE, v |-> 0]

\* bool(v)
truthy(v) ==
    IF v.t = "str" THEN v.s # <<>>
    ELSE IF v.t = "int" THEN v.n # 0
    ELSE FALSE

has_key(rec, k) == \E j \in 1..Len(rec.keys) : rec.keys[j] = k

\* dict.get(k): the value, or None
get(rec, k) ==
    IF has_key(rec, k)
    THEN rec.items[CHOOSE j \in 1..Len(rec.keys) : rec.keys[j] = k]
    ELSE NoneV

ID_KEYS ==
    <<"AE", "IdActividad", "idActividad", "IDE_ACTIVIDAD_ECONOMICA",
      "actividad", "Id", "id">>

\* extract_id: some = FALSE stands for None
extract_id(record) ==
    IF record.shape = "list" /\ record.items # <<>>
    THEN [some |-> TRUE, id |-> str_of(record.items[1])]
    ELSE IF record.shape = "dict" /\ \E j \in 1..Len(ID_KEYS) : has_key(record, ID_KEYS[j])
    THEN LET j == CHOOSE j \in 1..Len(ID_KEYS) :
                      /\ has_key(record, ID_KEYS[j])
                      /\ \A i \in 1..(j - 1) : ~has_key(record, ID_KEYS[i])
         IN  [some |-> TRUE, id |-> str_of(get(record, ID_KEYS[j]))]
    ELSE [some |-> FALSE, id |-> <<>>]

\* mutant of quantify_item: only list-shaped records are counted
quantify_item_list_only(item) ==
    IF item.shape = "list" /\ Len(item.items) >= 3
    THEN LET n == int_of(item.items[3]) IN IF n.ok THEN n.v ELSE 0
    ELSE 0

\* what one record adds to the total of quantify; an int() that raises is
\* swallowed by the bare except and the loop continues
quantify_item(item) ==
    IF item.shape = "list" /\ Len(item.items) >= 3
    THEN LET n == int_of(item.items[3]) IN IF n.ok THEN n.v ELSE 0
    ELSE IF item.shape = "dict"
    THEN LET val == IF truthy(get(item, "Total")) THEN get(item, "Total")
                    ELSE get(item, "total")
             n == int_of(val)
         IN  IF val # NoneV /\ n.ok THEN n.v ELSE 0
    ELSE 0

\* the total quantify computes from the records fetch returned
RECURSIVE quantify_data(_)
quantify_data(data) ==
    IF data = <<>> THEN 0
    ELSE quantify_data(SubSeq(data, 1, Len(data) - 1)) + quantify_item(data[Len(data)])

\* get_activities, discovery: the identifiers kept before sorting
discovered_ids(raw) ==
    LET ids == {extract_id(raw[k]).id : k \in {j \in 1..Len(raw) :
                    extract_id(raw[j]).some /\ extract_id(raw[j]).id # <<>>}}
    IN  {i \in ids : Len(i) = ACTIVIDAD_WIDTH}

\* sorted(S, key=int): every ordering of S that is ascending by int(); the
\* order of elements with equal keys is the set's iteration order
sorted_by_int(S) ==
    {q \in [1..Cardinality(S) -> S] :
        /\ Range(q) = S
        /\ \A a, b \in 1..Cardinality(S) : a < b => int(q[a]).v <= int(q[b]).v}

\* get_activities, explicit list
explicit_activities(ramos_arg) ==
    LET parts == split(ramos_arg)
        stripped == [k \in 1..Len(parts) |-> strip(parts[k])]
    IN  SelectSeq(stripped, validate_actividad)

\* the -e list of __main__
parse_estratos(estratos_arg) ==
    LET parts == split(estratos_arg)
        keep(e) == validate_estrato(e, FALSE)
        valid == SelectSeq(parts, keep)
    IN  IF valid = <<>> THEN ESTRATOS_FIJOS
        ELSE [k \in 1..Len(valid) |-> int(valid[k]).v]

\* the -a list of __main__ (inline list; a file gives one token per line)
parse_areas(area_arg) ==
    LET parts == split(area_arg)
        stripped == [k \in 1..Len(parts) |-> strip(parts[k])]
        nonempty(x) == x # <<>>
    IN  pad_areas(SelectSeq(stripped, nonempty))


\* ------------------------------------------------------------------------
\* Inputs of a run: the command line and the answers of the remote service
\* ------------------------------------------------------------------------

Tokens == {"t1", "t2"}

NoToken == "none"

\* the credential lists of -t after splitting and stripping: none, one,
\* the same one twice, two different ones
TokenLists == { <<>>, <<"t1">>, <<"t1", "t1">>, <<"t1", "t2">> }

\* -r: discovery, one sector, the same sector twice, nothing valid
RamosArgs ==
    { <<"0">>,
      <<"1", "1">>,
      <<"1", "1", ",", " ", "1", "1">>,
      <<"7", ",", "a", "b">> }

\* -a: one short code, two codes (one of them twice), nothing valid
AreaArgs ==
    { <<"9">>,
      <<"0", "1", "0", "0", "1", ",", "9", ",", "0", "0", "0", "0", "9">>,
      <<"1", "2", "3", "4", "5", "6", ",", "x">> }

\* -e: two strata and an invalid one, nothing valid
EstratosArgs ==
    { <<"1", ",", "2", ",", "9">>,
      <<"8", ",", "x">> }

\* bodies the service answers a counting request with
TaskBodies ==
    { <<>>,
      <<ListRec(<<SV(<<"A">>), IV(1), IV(15)>>),
        ListRec(<<SV(<<"B">>), IV(2), SV(<<"b", "a", "d">>)>>)>>,
      <<DictRec(<<"Total", "total">>, <<IV(0), SV(<<"1", "5">>)>>), OtherRec>> }

\* bodies the service answers the discovery request with: no record; two
\* sectors, one of them twice, and a one-digit identifier; a signed
\* identifier of two characters beside a sector; an identifier of two
\* characters that is no numeral
DiscoveryBodies ==
    { <<>>,
      <<ListRec(<<SV(<<"2", "3">>)>>), ListRec(<<SV(<<"0", "7">>)>>),
        ListRec(<<SV(<<"0", "7">>)>>), ListRec(<<IV(9), SV(<<"x">>)>>)>>,
      <<DictRec(<<"id", "Id">>, <<IV(11), SV(<<"-", "1">>)>>), OtherRec,
        ListRec(<<IV(11)>>)>>,
      <<DictRec(<<"AE">>, <<SV(<<"a", "b">>)>>)>> }

\* HTTP status codes the service answers with
StatusCodes == {200, 401, 403, 404, 500}

\* the status codes raise_for_status raises HTTPError for
ErrorCodes == StatusCodes \ {200}

\* what r.json() gives for a successful request: a JSON list of records, or
\* a JSON value that is no list
Parsed(bodies) ==
    [kind : {"list"}, data : bodies] \cup [kind : {"notlist"}, data : {<<>>}]

\* the computations above on the inputs of the model, computed once
ActividadesOf == [r \in RamosArgs |-> explicit_activities(strip(r))]

AreasOf == [a \in AreaArgs |-> parse_areas(a)]

EstratosOf == [e \in EstratosArgs |-> parse_estratos(e)]

SectorsOf == [b \in DiscoveryBodies |-> discovered_ids(b)]

\* lines 215-217 on a discovery answer: whether int() accepts every
\* identifier, and then the lists sorted(..., key=int) may give
ActivitiesOf ==
    [b \in DiscoveryBodies |->
        LET ids == SectorsOf[b]
            ok == \A i \in ids : int(i).ok
        IN  [ok |-> ok, n |-> Cardinality(ids),
             sorted |-> IF ok THEN sorted_by_int(ids) ELSE {}]]

TotalOf == [b \in TaskBodies |-> quantify_data(b)]

DiscoveryArgs == {r \in RamosArgs : strip(r) = <<"0">>}

\* get_activities: ramos_arg.strip() == '0'
is_discovery(a) == a.ramos \in DiscoveryArgs

\* the number of tasks a run with these arguments will submit, the
\* discovered sectors counted as n
tasks_of(acts, ars, ests) ==
    IF acts = 0 \/ ars = <<>> THEN 0 ELSE acts * Len(ars) * Len(ests)

planned_tasks(a, n) ==
    tasks_of(IF is_discovery(a) THEN n ELSE Len(ActividadesOf[a.ramos]),
             AreasOf[a.area], EstratosOf[a.estratos])

Args ==
    {a \in [tokens : TokenLists, ramos : RamosArgs, area : AreaArgs,
            estratos : EstratosArgs, workers : 1..MaxWorkers] :
        planned_tasks(a, 1) <= MaxTasks}

\* ------------------------------------------------------------------------
\* State
\* ------------------------------------------------------------------------

VARIABLES
    args,         \* the parsed command line
    mpc,          \* where the main thread is
    queue,        \* TokenManager.queue
    errors,       \* TokenManager.errors
    actividades,  \* __main__: actividades
    estratos,     \* __main__: estratos
    areas,        \* __main__: areas
    raw,          \* get_activities: raw, what the discovery fetch returned
    header,       \* generate_csv: the header row is written
    nsub,         \* generate_csv: tasks submitted to the executor
    fpc,          \* per call of fetch: where it is
    tok,          \* fetch: token, the borrowed credential
    tmp,          \* release: the count read by errors[token] += 1
    total,        \* per task: what quantify returned
    calls,        \* per call of fetch: get_token / session.get / release so far
    logged,       \* per call of fetch: the line it logged, until its row is written
    csv,          \* the rows written after the header
    order,        \* the task of each row written, in writing order
    processed,    \* generate_csv: processed
    reports,      \* the values of processed that were logged
    memo          \* the pure computations on the inputs of this run, evaluated once

mainVars == <<args, memo, mpc, actividades, estratos, areas, header, nsub>>

poolVars == <<queue, errors>>

fetchVars == <<fpc, tok, tmp, total, calls, logged, raw>>

sinkVars == <<csv, order, processed, reports>>

vars == <<mainVars, poolVars, fetchVars, sinkVars>>

\* call 0 is the discovery fetch of get_activities, call i >= 1 is task i
Calls == 0..MaxTasks

TaskIds == 1..MaxTasks

\* mutant of total_tasks: the strata are left out of the count
total_tasks_without_strata == Len(actividades) * Len(areas)

\* the number of futures of generate_csv
total_tasks == Len(actividades) * Len(areas) * Len(estratos)

\* the (ramo, area, estrato) of the i-th submitted task: for ramo, for area,
\* for estrato
task(i) ==
    LET k == i - 1
        ne == Len(estratos)
        na == Len(areas)
    IN  [ramo |-> actividades[(k \div (na * ne)) + 1],
         area |-> areas[((k \div ne) % na) + 1],
         estrato |-> estratos[(k % ne) + 1]]

\* the arguments of call i of fetch
fetch_args(i) ==
    IF i = 0
    THEN [actividad |-> <<"0">>, area |-> <<"0">>, estrato |-> 0, allow_zero |-> TRUE]
    ELSE [actividad |-> task(i).ramo, area |-> task(i).area,
          estrato |-> task(i).estrato, allow_zero |-> FALSE]

\* fetch, line 163
valid_args(f) ==
    /\ validate_actividad(f.actividad)
    /\ validate_area(f.area)
    /\ validate_estrato_int(f.estrato, f.allow_zero)

\* calls of fetch that hold a worker thread of the executor
running == {i \in TaskIds : fpc[i] \in {"get_token", "request", "rel_write", "rel_check"}}

NoCalls == [get |-> 0, req |-> 0, rel |-> 0]

Init ==
    /\ args \in Args
    /\ memo = [discovery |-> is_discovery(args),
               actividades |-> ActividadesOf[args.ramos],
               areas |-> AreasOf[args.area],
               estratos |-> EstratosOf[args.estratos],
               sectors |-> ActivitiesOf,
               totals |-> TotalOf]
    /\ mpc = "get_activities"
    /\ queue = args.tokens
    /\ errors = [t \in Range(args.tokens) |-> 0]
    /\ actividades = <<>>
    /\ estratos = <<>>
    /\ areas = <<>>
    /\ raw = <<>>
    /\ header = FALSE
    /\ nsub = 0
    /\ fpc = [i \in Calls |-> "idle"]
    /\ tok = [i \in Calls |-> NoToken]
    /\ tmp = [i \in Calls |-> 0]
    /\ total = [i \in TaskIds |-> 0]
    /\ calls = [i \in Calls |-> NoCalls]
    /\ logged = [i \in Calls |-> "nothing"]
    /\ csv = <<>>
    /\ order = <<>>
    /\ processed = 0
    /\ reports = <<>>


\* ------------------------------------------------------------------------
\* TokenManager
\* ------------------------------------------------------------------------

\* mutant of put: the token is not put back
put_lost(q, token) == q

\* queue.put(token)
put(q, token) == Append(q, token)

\* release: self.errors[token] >= MAX_RETRIES_PER_TOKEN
disabled(count) == count >= MAX_RETRIES_PER_TOKEN

\* mutant of release_success: every HTTP error is held against the token
release_success_never(code) == FALSE

\* fetch: success=(code not in (401,403))
release_success(code) == code \notin {401, 403}

\* release(token, True)
ReleaseTrue(i) ==
    /\ queue' = put(queue, tok[i])
    /\ UNCHANGED errors
    /\ calls' = [calls EXCEPT ![i].rel = @ + 1]

\* fetch returns data to its caller: get_activities keeps it as raw,
\* quantify sums it
Return(i, data) ==
    /\ fpc' = [fpc EXCEPT ![i] = "done"]
    /\ tok' = [tok EXCEPT ![i] = NoToken]
    /\ IF i = 0
       THEN raw' = data /\ UNCHANGED total
       ELSE total' = [total EXCEPT ![i] = memo.totals[data]] /\ UNCHANGED raw

\* ------------------------------------------------------------------------
\* DENUEClient.fetch, one call
\* ------------------------------------------------------------------------

\* fetch up to the call of get_token: invalid parameters return [] at once
EnterFetch(i) ==
    IF valid_args(fetch_args(i))
    THEN /\ fpc' = [fpc EXCEPT ![i] = "get_token"]
         /\ calls' = [calls EXCEPT ![i].get = @ + 1]
         /\ UNCHANGED <<tok, total, raw, logged>>
    ELSE /\ logged' = [logged EXCEPT ![i] = "invalid"]
         /\ Return(i, <<>>)
         /\ UNCHANGED calls

\* mutant of GetToken: the token is read but stays in the queue
GetToken_peek(i) ==
    /\ fpc[i] = "get_token"
    /\ queue # <<>>
    /\ tok' = [tok EXCEPT ![i] = Head(queue)]
    /\ queue' = queue
    /\ fpc' = [fpc EXCEPT ![i] = "request"]
    /\ calls' = [calls EXCEPT ![i].req = @ + 1]
    /\ UNCHANGED <<mainVars, errors, tmp, total, raw, logged, sinkVars>>

\* get_token returns: queue.get(block=True) takes the head of the queue, and
\* the request is issued
GetToken(i) ==
    /\ fpc[i] = "get_token"
    /\ queue # <<>>
    /\ tok' = [tok EXCEPT ![i] = Head(queue)]
    /\ queue' = Tail(queue)
    /\ fpc' = [fpc EXCEPT ![i] = "request"]
    /\ calls' = [calls EXCEPT ![i].req = @ + 1]
    /\ UNCHANGED <<mainVars, errors, tmp, total, raw, logged, sinkVars>>

\* the bodies call i may be answered with: a discovery answer leaves the run
\* within MaxTasks tasks
bodies_of(i) ==
    IF i = 0
    THEN {b \in DiscoveryBodies :
            tasks_of(memo.sectors[b].n, memo.areas, memo.estratos) <= MaxTasks}
    ELSE TaskBodies

\* lines 169-173: the request succeeds and the body parses
FetchOk(i) ==
    /\ fpc[i] = "request"
    /\ \E r \in Parsed(bodies_of(i)) :
          /\ ReleaseTrue(i)
          /\ Return(i, IF r.kind = "list" THEN r.data ELSE <<>>)
    /\ UNCHANGED <<mainVars, tmp, logged, sinkVars>>

\* line 176: logger.warning("HTTP %s en %s", code, url), by the kind of code
http_line(code) == IF code \in {401, 403} THEN "http_auth" ELSE "http_other"

\* lines 174-177, 181 and 139-140: raise_for_status raised HTTPError with
\* status code; release(token, success) with success = FALSE reads the count
\* of the token, with success = TRUE it puts the token back and fetch
\* returns []
OnHTTPError(i, code) ==
    /\ fpc[i] = "request"
    /\ logged' = [logged EXCEPT ![i] = http_line(code)]
    /\ IF release_success(code)
       THEN /\ ReleaseTrue(i)
            /\ Return(i, <<>>)
            /\ UNCHANGED tmp
       ELSE /\ tmp' = [tmp EXCEPT ![i] = errors[tok[i]]]
            /\ fpc' = [fpc EXCEPT ![i] = "rel_write"]
            /\ calls' = [calls EXCEPT ![i].rel = @ + 1]
            /\ UNCHANGED <<poolVars, tok, total, raw>>
    /\ UNCHANGED <<mainVars, sinkVars>>

FetchHTTPError(i) ==
    /\ fpc[i] = "request"
    /\ \E code \in ErrorCodes : OnHTTPError(i, code)

\* line 140: self.errors[token] += 1 stores the count read, plus one
ReleaseWrite(i) ==
    /\ fpc[i] = "rel_write"
    /\ errors' = [errors EXCEPT ![tok[i]] = tmp[i] + 1]
    /\ fpc' = [fpc EXCEPT ![i] = "rel_check"]
    /\ UNCHANGED <<mainVars, queue, tok, tmp, total, raw, calls, logged, sinkVars>>

\* mutant of ReleaseCheck: after an authorization failure fetch asks for a
\* token again instead of returning
ReleaseCheck_retry(i) ==
    /\ fpc[i] = "rel_check"
    /\ IF disabled(errors[tok[i]])
       THEN UNCHANGED queue
       ELSE queue' = put(queue, tok[i])
    /\ fpc' = [fpc EXCEPT ![i] = "get_token"]
    /\ tok' = [tok EXCEPT ![i] = NoToken]
    /\ calls' = [calls EXCEPT ![i].get = @ + 1]
    /\ tmp' = [tmp EXCEPT ![i] = 0]
    /\ UNCHANGED <<mainVars, errors, total, raw, logged, sinkVars>>

\* lines 141-144 and 181: a disabled token is not put back; fetch returns []
ReleaseCheck(i) ==
    /\ fpc[i] = "rel_check"
    /\ IF disabled(errors[tok[i]])
       THEN UNCHANGED queue
       ELSE queue' = put(queue, tok[i])
    /\ Return(i, <<>>)
    /\ tmp' = [tmp EXCEPT ![i] = 0]
    /\ UNCHANGED <<mainVars, errors, calls, logged, sinkVars>>

\* mutant of FetchException: the exception is not caught; it leaves fetch and
\* quantify with the token still borrowed and is raised again by
\* future.result() in the main thread
FetchException_uncaught(i) ==
    /\ fpc[i] = "request"
    /\ logged' = [logged EXCEPT ![i] = "exception"]
    /\ fpc' = [fpc EXCEPT ![i] = "done"]
    /\ mpc' = "crash"
    /\ UNCHANGED <<args, memo, actividades, estratos, areas, header, nsub, poolVars, tok, tmp,
                   total, calls, raw, sinkVars>>

\* lines 178-181: any other exception (network, timeout, retries exhausted,
\* a body that is no JSON)
FetchException(i) ==
    /\ fpc[i] = "request"
    /\ logged' = [logged EXCEPT ![i] = "exception"]
    /\ ReleaseTrue(i)
    /\ Return(i, <<>>)
    /\ UNCHANGED <<mainVars, tmp, sinkVars>>

\* ------------------------------------------------------------------------
\* __main__ and get_activities
\* ------------------------------------------------------------------------

\* get_activities with an explicit list
GetActivitiesExplicit ==
    /\ mpc = "get_activities"
    /\ ~memo.discovery
    /\ actividades' = memo.actividades
    /\ mpc' = "prepare"
    /\ UNCHANGED <<args, memo, estratos, areas, header, nsub, poolVars, fetchVars, sinkVars>>

\* get_activities('0') calls fetch('0', '0', 0, allow_zero_estrato=True)
BeginDiscovery ==
    /\ mpc = "get_activities"
    /\ memo.discovery
    /\ mpc' = "discovery"
    /\ EnterFetch(0)
    /\ UNCHANGED <<args, memo, actividades, estratos, areas, header, nsub, poolVars, tmp, sinkVars>>

\* lines 214-217: the sectors of the catalog; int() of an identifier that
\* is no numeral raises ValueError out of the program
EndDiscovery ==
    /\ mpc = "discovery"
    /\ fpc[0] = "done"
    /\ IF ~memo.sectors[raw].ok
       THEN mpc' = "crash" /\ UNCHANGED actividades
       ELSE /\ mpc' = "prepare"
            /\ \E sectors \in memo.sectors[raw].sorted : actividades' = sectors
    /\ raw' = <<>>
    /\ logged' = [logged EXCEPT ![0] = "nothing"]
    /\ UNCHANGED <<args, memo, estratos, areas, header, nsub, poolVars, fpc, tok, tmp, total,
                   calls, sinkVars>>

\* lines 302-317 and 236-239: the checks of __main__, then generate_csv opens
\* the executor and the file and writes the header
Prepare ==
    /\ mpc = "prepare"
    /\ IF actividades = <<>>
       THEN mpc' = "exit1" /\ UNCHANGED <<estratos, areas, header>>
       ELSE /\ estratos' = memo.estratos
            /\ areas' = memo.areas
            /\ IF areas' = <<>>
               THEN mpc' = "exit1" /\ UNCHANGED header
               ELSE mpc' = "submit" /\ header' = TRUE
    /\ UNCHANGED <<args, memo, actividades, nsub, poolVars, fetchVars, sinkVars>>

\* ------------------------------------------------------------------------
\* generate_csv
\* ------------------------------------------------------------------------

\* executor.submit(client.quantify, ramo, area, estrato); after the last one
\* total_tasks = len(futures) and the loop over as_completed begins
Submit ==
    /\ mpc = "submit"
    /\ nsub < total_tasks
    /\ nsub' = nsub + 1
    /\ fpc' = [fpc EXCEPT ![nsub + 1] = "queued"]
    /\ mpc' = IF nsub + 1 = total_tasks THEN "collect" ELSE "submit"
    /\ UNCHANGED <<args, memo, actividades, estratos, areas, header, poolVars, tok, tmp,
                   total, calls, logged, raw, sinkVars>>

\* a free worker thread takes the oldest work item and runs quantify
StartTask(i) ==
    /\ fpc[i] = "queued"
    /\ \A j \in 1..(i - 1) : fpc[j] # "queued"
    /\ Cardinality(running) < args.workers
    /\ EnterFetch(i)
    /\ UNCHANGED <<mainVars, poolVars, tmp, sinkVars>>


\* mutant of log_progress: only the last row is reported
log_progress_last_only(rs, k, n) == IF k = n THEN Append(rs, k) ELSE rs

\* lines 256-257: if processed % 100 == 0 or processed == total_tasks:
\* logger.info("Procesadas %d/%d tareas...", processed, total_tasks)
log_progress(rs, k, n) ==
    IF k % PROGRESS_EVERY = 0 \/ k = n THEN Append(rs, k) ELSE rs

\* mutant of WriteRow: a worker writes the row of its task as soon as the
\* task is done, without waiting for the loop of the main thread
WriteRow_by_worker(i) ==
    /\ fpc[i] = "done"
    /\ i \in TaskIds
    /\ csv' = Append(csv, <<task(i).ramo, task(i).estrato, total[i], task(i).area>>)
    /\ order' = Append(order, i)
    /\ processed' = processed + 1
    /\ reports' = log_progress(reports, processed', total_tasks)
    /\ fpc' = [fpc EXCEPT ![i] = "written"]
    /\ logged' = [logged EXCEPT ![i] = "nothing"]
    /\ UNCHANGED <<mainVars, poolVars, tok, tmp, total, calls, raw>>

\* lines 251-257: as_completed yields a finished future; its row is written
\* and progress is logged every PROGRESS_EVERY rows and at the last one
WriteRow(i) ==
    /\ mpc = "collect"
    /\ fpc[i] = "done"
    /\ i \in TaskIds
    /\ csv' = Append(csv, <<task(i).ramo, task(i).estrato, total[i], task(i).area>>)
    /\ order' = Append(order, i)
    /\ processed' = processed + 1
    /\ reports' = log_progress(reports, processed', total_tasks)
    /\ fpc' = [fpc EXCEPT ![i] = "written"]
    /\ logged' = [logged EXCEPT ![i] = "nothing"]
    /\ UNCHANGED <<mainVars, poolVars, tok, tmp, total, calls, raw>>

\* line 258: as_completed is exhausted, the executor and the file are closed
Finish ==
    /\ mpc = "collect"
    /\ processed = total_tasks
    /\ mpc' = "finished"
    /\ UNCHANGED <<args, memo, actividades, estratos, areas, header, nsub, poolVars, fetchVars,
                   sinkVars>>

Next ==
    \/ GetActivitiesExplicit
    \/ BeginDiscovery
    \/ EndDiscovery
    \/ Prepare
    \/ Submit
    \/ \E i \in TaskIds : StartTask(i)
    \/ \E i \in Calls : GetToken(i)
    \/ \E i \in Calls : FetchOk(i)
    \/ \E i \in Calls : FetchHTTPError(i)
    \/ \E i \in Calls : FetchException(i)
    \/ \E i \in Calls : ReleaseWrite(i)
    \/ \E i \in Calls : ReleaseCheck(i)
    \/ \E i \in TaskIds : WriteRow(i)
    \/ Finish

Spec == Init /\ [][Next]_vars


\* ------------------------------------------------------------------------
\* Properties
\* ------------------------------------------------------------------------

\* every supplied credential has reached the failure threshold
AllRetired == \A t \in DOMAIN errors : errors[t] >= MAX_RETRIES_PER_TOKEN

\* get_token was called somewhere / a request was issued somewhere
SomeBorrowAttempt == \E i \in Calls : calls[i].get > 0

SomeRequest == \E i \in Calls : calls[i].req > 0

\* C1: get_token never returns a credential whose failure count has reached
\* the threshold: whenever a call of get_token returns, the count of the
\* token it returns is below MAX_RETRIES_PER_TOKEN.
C1_NeverYieldsRetired ==
    [][\A i \in Calls :
          (fpc[i] = "get_token" /\ fpc'[i] = "request")
              => errors[tok'[i]] < MAX_RETRIES_PER_TOKEN]_vars

\* C2: when generate_csv has finished, the rows after the header are in
\* one-to-one correspondence with the submitted tasks: as many rows as
\* |activities| x |areas| x |strata|, every task has exactly one row, and a
\* row carries the activity, stratum, count and area of its own task.
C2_OneRowPerTask ==
    mpc = "finished" =>
        /\ header
        /\ Len(csv) = Len(actividades) * Len(areas) * Len(estratos)
        /\ nsub = Len(csv)
        /\ Len(order) = Len(csv)
        /\ \A i \in 1..nsub : Cardinality({k \in 1..Len(order) : order[k] = i}) = 1
        /\ \A k \in 1..Len(csv) :
              csv[k] = <<task(order[k]).ramo, task(order[k]).estrato,
                         total[order[k]], task(order[k]).area>>

\* a finished run of four tasks on two workers whose rows were written out
\* of submission order, with duplicated activities
C2_Witness ==
    /\ mpc = "finished"
    /\ Len(csv) = 4
    /\ args.workers = 2
    /\ order[1] = 3
    /\ \E k \in 1..4 : csv[k][3] # 0

\* C3: with an empty credential list the run ends with a fatal error before
\* any work starts: no task is submitted, get_token is never called, no
\* request is issued, and the run neither hangs in the pool nor completes.
C3_EmptyCredentialsFatal ==
    args.tokens = <<>> =>
        /\ nsub = 0
        /\ ~SomeBorrowAttempt
        /\ ~SomeRequest
        /\ mpc # "finished"

\* C4: whenever the run aborts with exit status 1 for want of an
\* activity or of an area, no request has been issued, whatever the
\* activity spec.
C4_AbortBeforeNetwork ==
    mpc = "exit1" => ~SomeRequest

\* discovery "0" with no valid area: the catalog has been fetched over the
\* network, sectors were found, and the run aborts with exit status 1
C4_Witness ==
    /\ mpc = "exit1"
    /\ memo.discovery
    /\ actividades # <<>>
    /\ areas = <<>>
    /\ calls[0].req = 1

\* C5: the release after a 401/403 raises the count of its token
\* by exactly 1; the token is put back when the count is then below the
\* threshold and is not put back otherwise; and a token whose count has
\* reached the threshold is never in circulation again (neither in the
\* queue nor handed out by get_token).
C5_AuthFailureCountsAndRetires ==
    [][\A i \in Calls :
          /\ (fpc[i] = "rel_write" /\ fpc'[i] = "rel_check")
                => (logged[i] = "http_auth"
                      /\ errors' = [errors EXCEPT ![tok[i]] = errors[tok[i]] + 1])
          /\ (fpc[i] = "rel_check" /\ fpc'[i] = "done")
                => IF errors[tok[i]] < MAX_RETRIES_PER_TOKEN
                   THEN queue' = Append(queue, tok[i])
                   ELSE queue' = queue
          /\ (tok[i] # NoToken /\ errors[tok[i]] >= MAX_RETRIES_PER_TOKEN)
                => (/\ errors'[tok[i]] >= MAX_RETRIES_PER_TOKEN
                    /\ tok[i] \notin Range(queue')
                    /\ \A j \in Calls \ {i} : tok'[j] # tok[i])]_vars

\* C6: a request that ends in a failure that is no authorization failure
\* (an HTTP error status outside {401, 403}, or an exception that is no
\* HTTPError) puts the borrowed token at the back of the queue and leaves
\* every failure count as it was.
C6_OtherFailureKeepsCredential ==
    [][\A i \in Calls :
          (fpc[i] = "request" /\ logged'[i] \in {"http_other", "exception"})
              => /\ queue' = Append(queue, tok[i])
                 /\ errors' = errors
                 /\ fpc'[i] = "done"
                 /\ tok[i] \in Range(args.tokens)]_vars

\* a task has failed with a status that is no authorization failure, while
\* the other worker holds a token: its token is back in the queue and no
\* count has moved
C6_Witness ==
    \E i, j \in TaskIds :
        /\ fpc[i] = "done"
        /\ logged[i] = "http_other"
        /\ calls[i].rel = 1
        /\ fpc[j] = "request"
        /\ queue # <<>>
        /\ \A t \in DOMAIN errors : errors[t] = 0

\* C7: once every supplied credential has reached the threshold,
\* no call of get_token returns any more: every call waiting in get_token
\* stays there, and the run does not finish while one is waiting.
C7_AllRetiredBlocksForever ==
    [][(AllRetired /\ args.tokens # <<>>)
          => \A i \in Calls :
                fpc[i] = "get_token" => (fpc'[i] = "get_token" /\ mpc' # "finished")]_vars


\* The runs of the fair specification: every worker thread of the bound,
\* one area, the catalog or one sector, one credential or two different ones.
FairInit ==
    /\ Init
    /\ args.workers = MaxWorkers
    /\ args.area = <<"9">>
    /\ args.ramos \in {<<"0">>, <<"1", "1">>}
    /\ args.tokens \in {<<"t1">>, <<"t1", "t2">>}

\* Every thread that can take a step eventually takes one, and every request
\* issued eventually returns (a response, or the timeout of session.get):
\* no step stays possible forever without some step being taken.
FairSpec == FairInit /\ [][Next]_vars /\ WF_vars(Next)

\* the main thread has left the program
Terminated == mpc \in {"finished", "exit1", "crash"}

\* C8: as long as some credential is below the threshold, every call waiting
\* in get_token eventually gets a token, and the run eventually ends with
\* every task completed: under fair scheduling, a call waits in get_token
\* for ever, or the run fails to end, only once all credentials are retired.
C8_NoDeadlockUnlessAllRetired ==
    /\ \A i \in Calls : (fpc[i] = "get_token") ~> (fpc[i] = "request" \/ AllRetired)
    /\ <>(AllRetired \/ (Terminated /\ \A i \in 1..nsub : fpc[i] = "written"))

\* two workers have waited for the one token, one failure is counted against
\* it, and the run has finished with all four rows
C8_Witness ==
    /\ mpc = "finished"
    /\ args.tokens = <<"t1">>
    /\ args.workers = 2
    /\ errors["t1"] = 1
    /\ processed = 4

\* the triple of call i fails the validation, in the words of the claim
InvalidTriple(i) ==
    LET f == fetch_args(i)
        digits(x, n) == Len(x) = n /\ \A k \in 1..Len(x) : x[k] \in Digits
    IN  \/ ~(f.actividad = <<"0">> \/ digits(f.actividad, 2))
        \/ ~(f.area = <<"0">> \/ digits(f.area, 5))
        \/ ~(f.estrato \in 1..7 \/ (f.allow_zero /\ f.estrato = 0))

\* C9: a fetch whose activity, area or stratum fails the validation returns
\* empty (its task counts 0) without calling get_token and without issuing
\* a request, and leaves the queue and the failure counts as they were.
C9_InvalidFetchTouchesNothing ==
    [][\A i \in Calls :
          (fpc[i] = (IF i = 0 THEN "idle" ELSE "queued") /\ fpc'[i] # fpc[i]
             /\ InvalidTriple(i))
              => /\ fpc'[i] = "done"
                 /\ calls'[i] = NoCalls
                 /\ tok'[i] = NoToken
                 /\ queue' = queue
                 /\ errors' = errors
                 /\ (i # 0 => total'[i] = 0)]_vars

\* a task with the discovered activity "-1" has returned while a token is
\* borrowed by another task: it called nothing
C9_Witness ==
    \E i, j \in TaskIds :
        /\ fpc[i] = "done"
        /\ task(i).ramo = <<"-", "1">>
        /\ logged[i] = "invalid"
        /\ calls[i] = NoCalls
        /\ fpc[j] = "request"

\* C10: once tasks run, no outcome of a task ends the run: the main thread
\* neither exits nor crashes, a task that failed (invalid parameters, HTTP
\* error, exception, a body that is no list) counts 0, its row is written
\* with that 0, and writing a row leaves the rows of the other tasks alone.
C10_FailuresAbsorbedAsZero ==
    [][/\ nsub > 0 => mpc' \in {"submit", "collect", "finished"}
       /\ \A i \in TaskIds :
             /\ (fpc[i] # "done" /\ fpc'[i] = "done" /\ logged'[i] # "nothing")
                   => total'[i] = 0
             /\ (fpc[i] = "request" /\ fpc'[i] = "done" /\ total'[i] # 0)
                   => \E b \in TaskBodies : total'[i] = TotalOf[b]
             /\ (fpc[i] = "done" /\ fpc'[i] # "done")
                   => /\ fpc'[i] = "written"
                      /\ csv' = Append(csv, <<task(i).ramo, task(i).estrato,
                                              IF logged[i] # "nothing" THEN 0 ELSE total[i],
                                              task(i).area>>)
       /\ Len(csv') >= Len(csv)
       /\ SubSeq(csv', 1, Len(csv)) = csv]_vars

\* a finished run after an authorization failure: the task with the invalid
\* activity "-1" has a row with 0 and another task has its row with 15
C10_Witness ==
    /\ mpc = "finished"
    /\ Len(csv) = 4
    /\ \E t \in DOMAIN errors : errors[t] > 0
    /\ \E k \in 1..4 : csv[k][1] = <<"-", "1">> /\ csv[k][3] = 0
    /\ \E k \in 1..4 : csv[k][3] = 15

\* C11: rows are appended one at a time and only by the loop of the main
\* thread over as_completed: a step that changes the rows is taken while the
\* main thread collects, appends the one complete row of one finished task
\* to the end and touches the state of no other task; no step of a worker
\* changes the rows; and the task written is any finished one, whatever its
\* place in the submission order.
C11_SerializedWrites ==
    [][/\ csv' # csv =>
            /\ mpc = "collect"
            /\ \E i \in TaskIds :
                  /\ fpc[i] = "done" /\ fpc'[i] = "written"
                  /\ \A j \in Calls \ {i} : fpc'[j] = fpc[j]
                  /\ csv' = Append(csv, <<task(i).ramo, task(i).estrato,
                                          total[i], task(i).area>>)
                  /\ order' = Append(order, i)
       /\ \A i \in TaskIds :
             (fpc'[i] # fpc[i] /\ fpc'[i] # "written") => csv' = csv
       /\ \A i \in TaskIds :
             (mpc = "collect" /\ fpc[i] = "done") => ENABLED WriteRow(i)]_vars

\* the row of the second task was written first, while the first task is
\* still waiting for its answer and a third task is finished and unwritten
C11_Witness ==
    /\ Len(order) = 1
    /\ order[1] = 2
    /\ fpc[1] = "request"
    /\ fpc[3] = "done"

\* the identifiers extract_id gives for the records of a catalog answer
\* that are exactly two digits
TwoDigitIds(records) ==
    {extract_id(records[k]).id : k \in {j \in 1..Len(records) :
        /\ extract_id(records[j]).some
        /\ Len(extract_id(records[j]).id) = 2
        /\ \A c \in 1..2 : extract_id(records[j]).id[c] \in Digits}}

\* C12: in discovery mode get_activities never fails, whatever the catalog
\* records, and returns exactly the extracted identifiers of two digits,
\* each once, in ascending numeric order.
C12_DiscoverySortedTwoDigit ==
    [][(mpc = "discovery" /\ mpc' # "discovery") =>
            /\ mpc' = "prepare"
            /\ Range(actividades') = TwoDigitIds(raw)
            /\ Len(actividades') = Cardinality(TwoDigitIds(raw))
            /\ \A a, b \in 1..Len(actividades') :
                  a < b => DigitsValue(actividades'[a]) < DigitsValue(actividades'[b])]_vars

\* the catalog answer held an identifier of two characters that is no
\* numeral: int() raised ValueError inside sorted and the program is gone
C12_Witness ==
    /\ mpc = "crash"
    /\ calls[0].req = 1
    /\ nsub = 0

\* ------------------------------------------------------------------------
\* The functions on their own: one call on a drawn argument
\* ------------------------------------------------------------------------

\* the sequences over S of length at most n
SeqsUpTo(S, n) == UNION {[1..k -> S] : k \in 0..n}

\* records of a counting answer: list-shaped with a count, with a count that
\* is no numeral, with a numeral as a string, too short, with a negative
\* count; dictionary-shaped with "Total", with "total", with both, with
\* null, with a "Total" that is no numeral; and an element that is neither
QuantifyRecords ==
    { ListRec(<<SV(<<"A">>), IV(1), IV(15)>>),
      ListRec(<<SV(<<"B">>), IV(2), SV(<<"b", "a", "d">>)>>),
      ListRec(<<SV(<<"C">>), IV(3), SV(<<"2">>)>>),
      ListRec(<<SV(<<"D">>), IV(4)>>),
      ListRec(<<SV(<<"E">>), IV(5), IV(-4)>>),
      DictRec(<<"Total">>, <<IV(7)>>),
      DictRec(<<"total">>, <<SV(<<"1", "5">>)>>),
      DictRec(<<"Total", "total">>, <<IV(0), IV(3)>>),
      DictRec(<<"Total">>, <<NoneV>>),
      DictRec(<<"Total", "total">>, <<SV(<<"b", "a", "d">>), IV(3)>>),
      OtherRec }

\* area tokens: short codes, the wildcard, codes of five digits, a token
\* with blanks around it, a code that is too long, a word, the empty token
AreaTokens ==
    { <<"9">>, <<"0">>, <<"0", "0", "0", "0", "9">>, <<"0", "1", "0", "0", "1">>,
      <<" ", "9", " ">>, <<"1", "2", "3", "4", "5", "6">>, <<"x">>, <<>> }

\* one call: quantify's loop on the records, or pad_areas on the tokens
PureInit ==
    /\ args = CHOOSE a \in Args : a.tokens = <<"t1">> /\ a.workers = 1 /\ ~is_discovery(a)
    /\ memo = [discovery |-> FALSE,
               actividades |-> <<>>, areas |-> <<>>, estratos |-> <<>>,
               sectors |-> <<>>, totals |-> <<>>]
    /\ \/ mpc = "quantify" /\ raw \in SeqsUpTo(QuantifyRecords, MaxListLen)
       \/ mpc = "pad_areas" /\ raw \in SeqsUpTo(AreaTokens, MaxListLen)
    /\ queue = args.tokens
    /\ errors = [t \in Range(args.tokens) |-> 0]
    /\ actividades = <<>>
    /\ estratos = <<>>
    /\ areas = <<>>
    /\ header = FALSE
    /\ nsub = 0
    /\ fpc = [i \in Calls |-> "idle"]
    /\ tok = [i \in Calls |-> NoToken]
    /\ tmp = [i \in Calls |-> 0]
    /\ total = [i \in TaskIds |-> 0]
    /\ calls = [i \in Calls |-> NoCalls]
    /\ logged = [i \in Calls |-> "nothing"]
    /\ csv = <<>>
    /\ order = <<>>
    /\ processed = 0
    /\ reports = <<>>

\* lines 194-205 on data = raw
Quantify ==
    /\ mpc = "quantify"
    /\ total' = [total EXCEPT ![1] = quantify_data(raw)]
    /\ mpc' = "quantified"
    /\ UNCHANGED <<args, memo, actividades, estratos, areas, header, nsub, poolVars,
                   fpc, tok, tmp, calls, logged, raw, sinkVars>>

\* pad_areas(raw)
PadAreas ==
    /\ mpc = "pad_areas"
    /\ areas' = pad_areas(raw)
    /\ mpc' = "padded"
    /\ UNCHANGED <<args, memo, actividades, estratos, header, nsub, poolVars,
                   fetchVars, sinkVars>>

\* pad_areas on what pad_areas returned
PadAreasAgain ==
    /\ mpc = "padded"
    /\ areas' = pad_areas(areas)
    /\ mpc' = "padded_twice"
    /\ UNCHANGED <<args, memo, actividades, estratos, header, nsub, poolVars,
                   fetchVars, sinkVars>>

PureNext == Quantify \/ PadAreas \/ PadAreasAgain

PureSpec == PureInit /\ [][PureNext]_vars

\* the integer a JSON value is coerced to, if any
Coerced(v) ==
    IF v.t = "int" THEN <<v.n>>
    ELSE IF v.t = "str" /\ int(v.s).ok THEN <<int(v.s).v>>
    ELSE <<>>

\* what a value adds to a sum: its integer, or nothing
Contribution(v) == IF Coerced(v) = <<>> THEN 0 ELSE Coerced(v)[1]

RECURSIVE SeqSum(_)
SeqSum(q) == IF q = <<>> THEN 0 ELSE Head(q) + SeqSum(Tail(q))

\* the numeric field of a record as claimed: position 2 of a list-shaped
\* record, the field "Total" of a dictionary-shaped record
FieldTotal(item) ==
    IF item.shape = "list" /\ Len(item.items) >= 3 THEN item.items[3]
    ELSE IF item.shape = "dict" /\ has_key(item, "Total") THEN get(item, "Total")
    ELSE NoneV

\* the numeric field of a record as amended: for a dictionary-shaped record
\* the field "Total", and the field "total" when "Total" is missing, null,
\* zero or empty
FieldTotalOrLower(item) ==
    IF item.shape = "list" /\ Len(item.items) >= 3 THEN item.items[3]
    ELSE IF item.shape = "dict" /\ has_key(item, "Total")
            /\ get(item, "Total") \notin {NoneV, IV(0), SV(<<>>)}
    THEN get(item, "Total")
    ELSE IF item.shape = "dict" /\ has_key(item, "total") THEN get(item, "total")
    ELSE NoneV

\* C13 as claimed: quantify returns the sum of the numeric field (position 2
\* of a list-shaped record, field "Total" of a dictionary-shaped record) over
\* all records; a record whose field cannot be coerced adds nothing and does
\* not stop the sum; the result is 0 for no record.
C13_QuantifySumsTotal ==
    mpc = "quantified" =>
        total[1] = SeqSum([k \in 1..Len(raw) |-> Contribution(FieldTotal(raw[k]))])

\* C13 as amended: the same, the field of a dictionary-shaped record being
\* "Total", or "total" when "Total" is missing, null, zero or empty.
C13_QuantifySumsTotalOrLower ==
    mpc = "quantified" =>
        /\ total[1] = SeqSum([k \in 1..Len(raw) |->
                                Contribution(FieldTotalOrLower(raw[k]))])
        /\ raw = <<>> => total[1] = 0

\* the records [["A",1,15],["B",2,"bad"],["E",5,-4]]: the second one is skipped
\* and the third one still counted
C13_Witness ==
    /\ mpc = "quantified"
    /\ raw = <<ListRec(<<SV(<<"A">>), IV(1), IV(15)>>),
               ListRec(<<SV(<<"B">>), IV(2), SV(<<"b", "a", "d">>)>>),
               ListRec(<<SV(<<"E">>), IV(5), IV(-4)>>)>>
    /\ total[1] = 11

\* a token as it is
AsIs(t) == t

\* the token without the blanks around it
Stripped(t) == strip(t)

\* an area token that is kept: the wildcard, or one to five digits
KeptToken(t) == t = <<"0">> \/ (Len(t) \in 1..5 /\ \A k \in 1..Len(t) : t[k] \in Digits)

\* what a kept token becomes: the wildcard itself, a code with zeros in
\* front up to five digits
PaddedToken(t) ==
    IF t = <<"0">> THEN t
    ELSE [k \in 1..5 |-> IF k <= 5 - Len(t) THEN "0" ELSE t[k - (5 - Len(t))]]

\* r is the padding of xs, the tokens read through norm: the padded kept
\* tokens, each once, in the order in which they are first seen
IsPaddingOf(r, xs, norm(_)) ==
    LET kept == {k \in 1..Len(xs) : KeptToken(norm(xs[k]))}
        first(c) == CHOOSE k \in kept :
                        /\ PaddedToken(norm(xs[k])) = c
                        /\ \A j \in kept : PaddedToken(norm(xs[j])) = c => k <= j
    IN  /\ Range(r) = {PaddedToken(norm(xs[k])) : k \in kept}
        /\ \A a, b \in 1..Len(r) : a < b => r[a] # r[b] /\ first(r[a]) < first(r[b])

\* C14 as claimed: pad_areas(pad_areas(xs)) = pad_areas(xs), and pad_areas(xs)
\* holds the tokens of xs that are "0" or one to five digits, padded with
\* zeros to five digits ("0" as it is), each once, in first-seen order; any
\* other token is dropped.
C14_PadAreasIdempotent ==
    [][/\ mpc = "pad_areas" => IsPaddingOf(areas', raw, AsIs)
       /\ mpc = "padded" => areas' = areas]_vars

\* C14 as amended: the same, a token being read without the blanks around it.
C14_PadAreasIdempotentStripped ==
    [][/\ mpc = "pad_areas" => IsPaddingOf(areas', raw, Stripped)
       /\ mpc = "padded" => areas' = areas]_vars

\* pad_areas twice on ["9", "0", "00009"]: "9" is padded, the wildcard is
\* kept as it is, the second "00009" is dropped
C14_Witness ==
    /\ mpc = "padded_twice"
    /\ raw = << <<"9">>, <<"0">>, <<"0", "0", "0", "0", "9">> >>
    /\ areas = << <<"0", "0", "0", "0", "9">>, <<"0">> >>

\* ------------------------------------------------------------------------
\* Runs against a remote service whose behaviour is fixed
\* ------------------------------------------------------------------------

\* the credential the fixed service rejects, and the count it answers every
\* request made with another credential
RejectedToken == "t1"

FixedCount == 15

\* two credentials, the first of them rejected by the service; one sector,
\* two areas, two strata: four tasks with different parameters
FixedInit ==
    /\ Init
    /\ args.tokens = <<"t1", "t2">>
    /\ args.workers = MaxWorkers
    /\ args.ramos = <<"1", "1">>
    /\ Len(memo.areas) = 2

\* the service answers a request made with a credential it accepts
FixedFetchOk(i) ==
    /\ tok[i] # RejectedToken
    /\ FetchOk(i)
    /\ i # 0 => total'[i] = FixedCount

\* the service answers 401 to a request made with the rejected credential
FixedFetchRejected(i) ==
    /\ fpc[i] = "request"
    /\ tok[i] = RejectedToken
    /\ OnHTTPError(i, 401)

FixedNext ==
    \/ GetActivitiesExplicit
    \/ Prepare
    \/ Submit
    \/ \E i \in TaskIds : StartTask(i)
    \/ \E i \in Calls : GetToken(i)
    \/ \E i \in Calls : FixedFetchOk(i)
    \/ \E i \in Calls : FixedFetchRejected(i)
    \/ \E i \in Calls : ReleaseWrite(i)
    \/ \E i \in Calls : ReleaseCheck(i)
    \/ \E i \in TaskIds : WriteRow(i)
    \/ Finish

FixedSpec == FixedInit /\ [][FixedNext]_vars

\* the rows of the run against the fixed service in which the first task is
\* the only one whose request was made with the rejected credential
RowsOfOneRun ==
    {<<task(i).ramo, task(i).estrato, IF i = 1 THEN 0 ELSE FixedCount, task(i).area>> :
        i \in 1..nsub}

\* C15: for a fixed remote behaviour and fixed credentials every interleaving
\* of the workers produces the same set of rows: every finished run against
\* the fixed service has the rows of the run above.
C15_SameRowsInEveryInterleaving ==
    mpc = "finished" => Range(csv) = RowsOfOneRun

\* a finished run against the fixed service with exactly those rows
C15_Witness ==
    /\ mpc = "finished"
    /\ nsub = 4
    /\ Range(csv) = RowsOfOneRun

\* C16: a task runs fetch once and fetch has no retry: each call of fetch
\* calls get_token at most once, issues at most one request and calls
\* release at most once, a request only with a borrowed token and a release
\* only after a request; once fetch has returned the token was released
\* exactly as often as it was borrowed and nothing more is called for that
\* task (there is no task-level retry after a failed request).
C16_FetchExactlyOnce ==
    [][\A i \in Calls :
          /\ calls'[i].get <= 1
          /\ calls'[i].req <= calls'[i].get
          /\ calls'[i].rel <= calls'[i].req
          /\ fpc'[i] \in {"done", "written"} => calls'[i].rel = calls'[i].req
          /\ fpc[i] \in {"done", "written"} =>
                (calls'[i] = calls[i] /\ fpc'[i] \in {"done", "written"})
          /\ fpc[i] = "idle" => calls[i] = NoCalls]_vars

\* a finished run of four tasks in which two requests were rejected with an
\* authorization failure: each task borrowed, requested and released once
C16_Witness ==
    /\ mpc = "finished"
    /\ nsub = 4
    /\ \E t \in DOMAIN errors : errors[t] = 2
    /\ \A i \in 1..4 : calls[i] = [get |-> 1, req |-> 1, rel |-> 1]

\* C17: after a request rejected with 401/403 fetch falls back to a different
\* credential for the same task: when the release that follows the rejection
\* is over and another supplied credential is below the threshold, fetch does
\* not return but goes on to borrow again.
C17_AuthFailureFallsBack ==
    [][\A i \in Calls :
          (/\ fpc[i] = "rel_check"
           /\ \E t \in DOMAIN errors \ {tok[i]} : errors[t] < MAX_RETRIES_PER_TOKEN)
              => (fpc'[i] # "done" /\ calls'[i].req <= 1)]_vars

\* a task has returned after one rejected request, without a second one,
\* while the other credential lies unused in the queue
C17_Witness ==
    \E i \in TaskIds :
        /\ fpc[i] = "done"
        /\ logged[i] = "http_auth"
        /\ calls[i] = [get |-> 1, req |-> 1, rel |-> 1]
        /\ total[i] = 0
        /\ errors = [t \in {"t1", "t2"} |-> IF t = "t1" THEN 1 ELSE 0]
        /\ queue = <<"t2", "t1">>

\* ------------------------------------------------------------------------
\* The loop of generate_csv on many tasks
\* ------------------------------------------------------------------------

\* the state at line 250 of a run with -r 11,...,11 (-r keeps duplicates),
\* -a 9 and the first strata, in which every fetch has returned []: all the
\* futures are done with total 0 and as_completed yields them one at a time
ProgressInit ==
    /\ args = CHOOSE a \in Args : a.tokens = <<"t1">> /\ a.workers = 1 /\ ~is_discovery(a)
    /\ memo = [discovery |-> FALSE,
               actividades |-> <<>>, areas |-> <<>>, estratos |-> <<>>,
               sectors |-> <<>>, totals |-> <<>>]
    /\ mpc = "collect"
    /\ \E nr \in 1..MaxRamos : actividades = [k \in 1..nr |-> <<"1", "1">>]
    /\ \E ne \in 1..Len(ESTRATOS_FIJOS) : estratos = SubSeq(ESTRATOS_FIJOS, 1, ne)
    /\ areas = pad_areas(<<<<"9">>>>)
    /\ header = TRUE
    /\ nsub = total_tasks
    /\ queue = args.tokens
    /\ errors = [t \in Range(args.tokens) |-> 0]
    /\ raw = <<>>
    /\ fpc = [i \in Calls |-> "idle"]
    /\ tok = [i \in Calls |-> NoToken]
    /\ tmp = [i \in Calls |-> 0]
    /\ total = [i \in TaskIds |-> 0]
    /\ calls = [i \in Calls |-> NoCalls]
    /\ logged = [i \in Calls |-> "nothing"]
    /\ csv = <<>>
    /\ order = <<>>
    /\ processed = 0
    /\ reports = <<>>

\* lines 251-257 for the next future, in the order of submission
CollectRow ==
    /\ mpc = "collect"
    /\ processed < total_tasks
    /\ LET i == processed + 1
       IN  /\ csv' = Append(csv, <<task(i).ramo, task(i).estrato, 0, task(i).area>>)
           /\ order' = Append(order, i)
    /\ processed' = processed + 1
    /\ reports' = log_progress(reports, processed', total_tasks)
    /\ UNCHANGED <<mainVars, poolVars, fetchVars>>

ProgressNext ==
    \/ CollectRow
    \/ Finish

ProgressSpec == ProgressInit /\ [][ProgressNext]_vars

\* C18: a progress line is logged exactly after the k-th row is written with
\* k a multiple of 100 or k the number of tasks, and it shows k; no logged
\* count exceeds the number of tasks, and at the end of a run the last
\* logged count is the number of tasks.
C18_ProgressReports ==
    [][/\ csv' # csv =>
            LET k == Len(csv')
            IN  /\ Len(csv) = k - 1
                /\ reports' = IF k % PROGRESS_EVERY = 0 \/ k = nsub
                              THEN Append(reports, k)
                              ELSE reports
       /\ csv' = csv => reports' = reports
       /\ \A r \in 1..Len(reports') : reports'[r] <= nsub
       /\ mpc' = "finished" =>
            (Len(reports') > 0 /\ reports'[Len(reports')] = nsub /\ Len(csv') = nsub)]_vars

\* a finished run of more than 200 tasks, not a multiple of 100: two reports
\* at the hundreds and the last one at the total
C18_Witness ==
    /\ mpc = "finished"
    /\ nsub > 2 * PROGRESS_EVERY
    /\ nsub % PROGRESS_EVERY # 0
    /\ reports = <<PROGRESS_EVERY, 2 * PROGRESS_EVERY, nsub>>
    /\ Len(csv) = nsub

\* ------------------------------------------------------------------------
\* Where the credentials are
\* ------------------------------------------------------------------------

\* the tokens were supplied without repetition
DistinctCredentials ==
    \A j, k \in 1..Len(args.tokens) : args.tokens[j] = args.tokens[k] => j = k

\* how often token t is in the queue
InQueue(t) == Cardinality({k \in 1..Len(queue) : queue[k] = t})

\* the calls of fetch between get_token and the end of release with token t
Holders(t) ==
    {i \in Calls : fpc[i] \in {"request", "rel_write", "rel_check"} /\ tok[i] = t}

\* token t has reached the threshold and release has returned without put
Retired(t) == disabled(errors[t]) /\ Holders(t) = {}

\* C19: with distinct credentials every supplied credential is in exactly one
\* place (once in the queue, held by one call, or retired), the queue and
\* the calls hold supplied credentials only, and at the end of the run the
\* queue holds exactly the credentials that are not retired.
C19_EachCredentialInOnePlace ==
    DistinctCredentials =>
        /\ \A t \in Range(args.tokens) :
              InQueue(t) + Cardinality(Holders(t)) + (IF Retired(t) THEN 1 ELSE 0) = 1
        /\ Range(queue) \subseteq Range(args.tokens)
        /\ \A i \in Calls :
              /\ tok[i] \in Range(args.tokens) \cup {NoToken}
              /\ fpc[i] \in {"request", "rel_write", "rel_check"} => tok[i] \in Range(args.tokens)
        /\ mpc = "finished" =>
              Range(queue) = {t \in Range(args.tokens) : ~disabled(errors[t])}

\* of two credentials one is retired, the other is held by a request, and
\* the queue is empty
C19_Witness ==
    /\ args.tokens = <<"t1", "t2">>
    /\ Retired("t1")
    /\ queue = <<>>
    /\ \E i \in TaskIds : fpc[i] = "request" /\ tok[i] = "t2"

\* C20: no step lowers a failure count; a release with success (after a good
\* answer, another HTTP status or an exception) leaves every count as it
\* was; each release after a 401/403 adds one to the count of its token, so
\* the count is the number of authorization failures so far; and the
\* release that brings the count to the threshold, and no earlier one,
\* keeps the token out of the queue.
C20_FailureCountOnlyGrows ==
    [][/\ \A t \in DOMAIN errors : errors'[t] >= errors[t]
       /\ \A i \in Calls :
             /\ (fpc[i] = "request" /\ fpc'[i] = "done") => errors' = errors
             /\ (fpc[i] = "rel_write" /\ fpc'[i] = "rel_check")
                   => errors'[tok[i]] = errors[tok[i]] + 1
             /\ (fpc[i] = "rel_check" /\ fpc'[i] = "done")
                   => /\ errors[tok[i]] <= MAX_RETRIES_PER_TOKEN
                      /\ errors[tok[i]] = MAX_RETRIES_PER_TOKEN <=> queue' = queue]_vars

\* two calls hold the same token in release, the first has read the count
\* 0 and not yet stored it, and the count has meanwhile grown to 2
C20_Witness ==
    \E i, j \in TaskIds :
        /\ i # j
        /\ tok[i] = tok[j]
        /\ fpc[i] = "rel_write" /\ tmp[i] = 0
        /\ fpc[j] = "rel_check"
        /\ errors[tok[i]] = 2

====
